---- MODULE Spec2Model ----
(***************************************************************************)
(* A model of minijson (src/minijson.hpp, src/minijson.cpp): the JsonValue *)
(* sum type with its lookups and dump, the recursive-descent parser as a   *)
(* machine over an explicit call stack and one shared cursor, and          *)
(* getContext.                                                             *)
(*                                                                         *)
(* A buffer is a sequence of one-character strings.  Cursors are 0-based   *)
(* as in the source: source[cursor] of the code is At(source, cursor).     *)
(***************************************************************************)
EXTENDS Integers, Sequences, FiniteSets, TLC

VARIABLES
    source,   \* parse: the input buffer (std::string_view source)
    cursor,   \* parse: the shared cursor (size_t& cursor)
    stack,    \* parse: the call stack of the grammar rules, innermost last
    ret,      \* parse: the result handed back by the rule that returned last
    steps,    \* parse: number of rule steps taken so far
    shape,    \* parse: how the buffer was built (what it is expected to hold)
    doc,      \* lookup: the JsonValue a chain of operator[] starts from
    cur,      \* lookup: the JsonValue the chain has reached
    chain,    \* lookup: the keys and indices applied so far
    str,      \* getContext: the buffer
    offset,   \* getContext: the cursor argument
    ctx       \* getContext: the returned text, empty before the call

vars == <<source, cursor, stack, ret, steps, shape, doc, cur, chain, str, offset, ctx>>

parseVars == <<source, cursor, stack, ret, steps, shape>>
lookupVars == <<doc, cur, chain>>
contextVars == <<str, offset, ctx>>

(***************************************************************************)
(* Bounds of the model.                                                    *)
(***************************************************************************)
MaxLen == 4        \* longest buffer drawn freely over RawChars
MaxElems == 2      \* most elements / members of a generated array or object
MaxNest == 1       \* most containers wrapped around a generated tree
MaxChain == 3      \* longest chain of lookups
MaxCtxLen == 4     \* longest buffer handed to getContext

(***************************************************************************)
(* Characters.                                                             *)
(***************************************************************************)
Digits == {"0", "1", "2", "3", "4", "5", "6", "7", "8", "9"}

LowerLetters ==
    {"a", "b", "c", "d", "e", "f", "g", "h", "i", "j", "k", "l", "m",
     "n", "o", "p", "q", "r", "s", "t", "u", "v", "w", "x", "y", "z"}

UpperLetters ==
    {"A", "B", "C", "D", "E", "F", "G", "H", "I", "J", "K", "L", "M",
     "N", "O", "P", "Q", "R", "S", "T", "U", "V", "W", "X", "Y", "Z"}

Letters == LowerLetters \cup UpperLetters

\* A byte that is none of the characters the code compares against: what a
\* read of uninitialised or foreign memory yields when it yields nothing
\* meaningful (for instance '\0').
NUL == "NUL"

\* const auto valueChars = "0123456789abcdefghijlmnopqrstuvwxyzABC...Z.+-";
\* the literal of the source has no 'k'.
valueChars == Digits \cup (LowerLetters \ {"k"}) \cup UpperLetters \cup {".", "+", "-"}

\* Byte values of the characters that occur in keys of the model, for the
\* ordering of std::map<std::string, JsonValue, std::less<>>.
Ascii ==
    [c \in {" ", "1", "a", "k", "x", "y"} |->
        CASE c = " " -> 32
          [] c = "1" -> 49
          [] c = "a" -> 97
          [] c = "k" -> 107
          [] c = "x" -> 120
          [] c = "y" -> 121]

\* source[i] for 0 <= i < source.size()
At(s, i) == s[i + 1]

\* source.substr(pos, n)
substr(s, pos, n) == SubSeq(s, pos + 1, pos + n)

RECURSIVE Concat(_)
\* the concatenation of a sequence of sequences
Concat(ss) == IF ss = <<>> THEN <<>> ELSE Head(ss) \o Concat(Tail(ss))

RECURSIVE Repeat(_, _)
\* std::string(n, ch) and the indentStr loop: n copies of the text s
Repeat(s, n) == IF n = 0 THEN <<>> ELSE s \o Repeat(s, n - 1)

RECURSIVE Pow10(_)
Pow10(n) == IF n = 0 THEN 1 ELSE 10 * Pow10(n - 1)

\* All sequences over S of length at most n.
SeqsUpTo(S, n) == UNION {[1..k -> S] : k \in 0..n}

(***************************************************************************)
(* JsonValue: a tagged union.  A Number is the exact decimal m / 10^e,     *)
(* normalised (e = 0 or m not a multiple of 10): the model's doubles are   *)
(* the decimals short enough for from_chars and "%f" to be exact on them   *)
(* up to the six fraction digits "%f" keeps.  An Object is a function from *)
(* its keys to its members (std::map: unique keys, iterated in key order). *)
(***************************************************************************)
Invalid == [type |-> "Invalid"]
Null == [type |-> "Null"]
Bool(b) == [type |-> "Bool", b |-> b]
String(s) == [type |-> "String", s |-> s]
Array(a) == [type |-> "Array", a |-> a]
Object(o) == [type |-> "Object", o |-> o]

RECURSIVE Normalise(_, _)
Normalise(m, e) ==
    IF e > 0 /\ m % 10 = 0 THEN Normalise(m \div 10, e - 1) ELSE [m |-> m, e |-> e]

Number(m, e) == [type |-> "Number", n |-> Normalise(m, e)]

isValid(v) == v.type # "Invalid"
isNull(v) == v.type = "Null"
isArray(v) == v.type = "Array"
isObject(v) == v.type = "Object"

\* template <typename T> const T& as() const { return std::get<T>(value_); }
\* std::get throws std::bad_variant_access when the variant holds another
\* alternative: thrown says so, ref is the payload otherwise.
asArray(v) ==
    IF v.type = "Array" THEN [thrown |-> FALSE, ref |-> v.a] ELSE [thrown |-> TRUE, ref |-> <<>>]
asObject(v) ==
    IF v.type = "Object" THEN [thrown |-> FALSE, ref |-> v.o] ELSE [thrown |-> TRUE, ref |-> <<>>]

\* What a lookup yields instead of a JsonValue when it fails.
BadVariantAccess == [type |-> "bad_variant_access"]
OutOfBounds == [type |-> "out_of_bounds"]

\* size_t JsonValue::size() const
size(v) ==
    IF ~isValid(v) \/ isNull(v) THEN 0
    ELSE IF isArray(v) THEN Len(asArray(v).ref)
    ELSE IF isObject(v) THEN Cardinality(DOMAIN asObject(v).ref)
    ELSE 1

\* static const JsonValue& getNonExistent() { static JsonValue v; return v; }
getNonExistent == Invalid

\* obj.insert_or_assign(key, value) in place of emplace: the later value
\* replaces the stored one.
insert_or_assign(obj, key, value) ==
    [k \in DOMAIN obj \cup {key} |-> IF k = key THEN value ELSE obj[k]]

\* obj.emplace(key, value): inserts unless the key is present
emplace(obj, key, value) ==
    IF key \in DOMAIN obj THEN obj ELSE obj @@ (key :> value)

(***************************************************************************)
(* Lookups (operator[]).                                                   *)
(***************************************************************************)
\* const JsonValue& JsonValue::operator[](std::string_view key) const
IndexKey(v, key) ==
    IF isObject(v)
    THEN LET obj == asObject(v)
         IN  IF obj.thrown THEN BadVariantAccess
             ELSE IF key \notin DOMAIN obj.ref THEN getNonExistent
             ELSE obj.ref[key]
    ELSE getNonExistent

\* IndexAt without the `index < size()` test.
IndexAtUnchecked(v, index) ==
    IF isArray(v)
    THEN LET arr == asArray(v)
         IN  IF arr.thrown THEN BadVariantAccess
             ELSE IF index < Len(arr.ref) THEN arr.ref[index + 1]
             ELSE OutOfBounds
    ELSE getNonExistent

\* const JsonValue& JsonValue::operator[](size_t index) const
\* (asArray()[index] is std::vector::operator[], undefined past the end)
IndexAt(v, index) ==
    IF isArray(v) /\ index < size(v)
    THEN LET arr == asArray(v)
         IN  IF arr.thrown THEN BadVariantAccess
             ELSE IF index < Len(arr.ref) THEN arr.ref[index + 1]
             ELSE OutOfBounds
    ELSE getNonExistent

(***************************************************************************)
(* Numbers to and from text.                                               *)
(***************************************************************************)
DigitVal(c) ==
    CASE c = "0" -> 0 [] c = "1" -> 1 [] c = "2" -> 2 [] c = "3" -> 3
      [] c = "4" -> 4 [] c = "5" -> 5 [] c = "6" -> 6 [] c = "7" -> 7
      [] c = "8" -> 8 [] c = "9" -> 9

DigitChar(d) == CHOOSE c \in Digits : DigitVal(c) = d

RECURSIVE DigitsValue(_)
\* the natural number a digit sequence denotes (0 for the empty sequence)
DigitsValue(ds) ==
    IF ds = <<>> THEN 0
    ELSE 10 * DigitsValue(SubSeq(ds, 1, Len(ds) - 1)) + DigitVal(ds[Len(ds)])

RECURSIVE NatToDigits(_)
NatToDigits(n) ==
    IF n < 10 THEN <<DigitChar(n)>>
    ELSE NatToDigits(n \div 10) \o <<DigitChar(n % 10)>>

\* n written with exactly w digits (n < 10^w)
PadDigits(n, w) ==
    LET ds == NatToDigits(n) IN Repeat(<<"0">>, w - Len(ds)) \o ds

AllDigits(s) == \A i \in 1..Len(s) : s[i] \in Digits

\* std::nullopt
nullopt == [type |-> "nullopt"]

\* std::from_chars(first, last, double&) in chars_format::general, on the
\* texts of the model: an optional '-', then digits with at most one '.'
\* and at least one digit.  It reports the end of the longest prefix that
\* is a number; parseNumber requires that end to be the end of the text.
\* (No '+' sign is accepted.  The exponent, "inf" and "nan" forms need
\* letters that the tokens of the model never combine.)
from_chars(text) ==
    LET neg == text # <<>> /\ text[1] = "-"
        body == IF neg THEN Tail(text) ELSE text
        dots == {i \in 1..Len(body) : body[i] = "."}
        dot == IF dots = {} THEN Len(body) + 1 ELSE CHOOSE i \in dots : \A j \in dots : i <= j
        ip == SubSeq(body, 1, dot - 1)
        fp == SubSeq(body, dot + 1, Len(body))
        ok == /\ AllDigits(ip)
              /\ AllDigits(fp)
              /\ Len(ip) + Len(fp) > 0
        mag == DigitsValue(ip \o fp)
    IN  IF ok THEN Number(IF neg THEN 0 - mag ELSE mag, Len(fp)) ELSE nullopt

\* std::optional<double> parseNumber(std::string_view str)
parseNumber(text) == from_chars(text)

\* std::to_string(double): printf "%f", six digits after the point,
\* rounded to nearest.
FractionDigits == 6

to_string(num) ==
    LET m == num.m
        e == num.e
        mag == IF m < 0 THEN 0 - m ELSE m
        scaled == IF e <= FractionDigits
                  THEN mag * Pow10(FractionDigits - e)
                  ELSE (mag + (Pow10(e - FractionDigits) \div 2)) \div Pow10(e - FractionDigits)
        unit == Pow10(FractionDigits)
    IN  (IF m < 0 THEN <<"-">> ELSE <<>>)
        \o NatToDigits(scaled \div unit) \o <<".">> \o PadDigits(scaled % unit, FractionDigits)

(***************************************************************************)
(* dump.                                                                   *)
(***************************************************************************)
RECURSIVE LexLess(_, _)
\* std::less<> on std::string: lexicographic on the bytes
LexLess(a, b) ==
    IF b = <<>> THEN FALSE
    ELSE IF a = <<>> THEN TRUE
    ELSE IF Ascii[Head(a)] # Ascii[Head(b)] THEN Ascii[Head(a)] < Ascii[Head(b)]
    ELSE LexLess(Tail(a), Tail(b))

RECURSIVE SortedKeys(_)
\* the keys of a std::map in iteration order
SortedKeys(keys) ==
    IF keys = {} THEN <<>>
    ELSE LET first == CHOOSE k \in keys : \A j \in keys \ {k} : LexLess(k, j)
         IN  <<first>> \o SortedKeys(keys \ {first})

RECURSIVE dump(_, _, _)
\* std::string JsonValue::dump(std::string_view indent, size_t indentLevel) const
dump(v, indent, indentLevel) ==
    LET indentStr == Repeat(indent, indentLevel)
    IN  CASE v.type = "Null" -> <<"n", "u", "l", "l">>
          [] v.type = "Bool" ->
                IF v.b THEN <<"t", "r", "u", "e">> ELSE <<"f", "a", "l", "s", "e">>
          [] v.type = "Number" -> to_string(v.n)
          [] v.type = "String" -> <<"\"">> \o v.s \o <<"\"">>
          [] v.type = "Array" ->
                LET arr == v.a
                    item(i) == indentStr \o indent \o dump(arr[i], indent, indentLevel + 1)
                                \o (IF i < Len(arr) THEN <<",">> ELSE <<>>) \o <<"\n">>
                IN  <<"[", "\n">> \o Concat([i \in 1..Len(arr) |-> item(i)])
                    \o indentStr \o <<"]">>
          [] v.type = "Object" ->
                LET obj == v.o
                    keys == SortedKeys(DOMAIN obj)
                    item(i) == indentStr \o indent \o <<"\"">> \o keys[i] \o <<"\"", ":", " ">>
                                \o dump(obj[keys[i]], indent, indentLevel + 1)
                                \o (IF i < Len(keys) THEN <<",">> ELSE <<>>) \o <<"\n">>
                IN  <<"{", "\n">> \o Concat([i \in 1..Len(keys) |-> item(i)])
                    \o indentStr \o <<"}">>

(***************************************************************************)
(* getContext.                                                             *)
(***************************************************************************)
\* str[i] of a std::string_view: for i = str.size() the read is past the
\* view, and yields whatever byte follows it in memory (past).
ViewAt(s, i, past) == IF i < Len(s) THEN At(s, i) ELSE past

RECURSIVE ScanBack(_, _, _)
\* while (lineStart > 0 && str[lineStart] != '\n') lineStart--;
ScanBack(s, lineStart, past) ==
    IF lineStart > 0 /\ ViewAt(s, lineStart, past) # "\n"
    THEN ScanBack(s, lineStart - 1, past)
    ELSE lineStart

RECURSIVE ScanForward(_, _)
\* while (lineEnd < str.size() && str[lineEnd] != '\n') lineEnd++;
ScanForward(s, lineEnd) ==
    IF lineEnd < Len(s) /\ At(s, lineEnd) # "\n"
    THEN ScanForward(s, lineEnd + 1)
    ELSE lineEnd

\* std::string getContext(std::string_view str, size_t cursor)
getContext(s, c, past) ==
    LET back == ScanBack(s, c, past)
        lineStart == IF back < c /\ ViewAt(s, back, past) = "\n" THEN back + 1 ELSE back
        lineEnd == ScanForward(s, lineStart)
    IN  substr(s, lineStart, lineEnd - lineStart) \o <<"\n">>
        \o Repeat(<<" ">>, c - lineStart) \o <<"^">>

(***************************************************************************)
(* The parser.  A frame of the call stack is one activation of a grammar   *)
(* rule: fn names the function, pc the place in it, acc the local being    *)
(* built (str, values or obj) and key the local key of parseObject.        *)
(***************************************************************************)
Frame(fn, pc, acc) == [fn |-> fn, pc |-> pc, acc |-> acc, key |-> <<>>]

\* Result<T>: a value or an Error { cursor, message }
Error(c, message) == [kind |-> "error", cursor |-> c, message |-> message]
Value(v) == [kind |-> "value", value |-> v]
Str(s) == [kind |-> "string", str |-> s]
Found(b) == [kind |-> "bool", b |-> b]
Void == [kind |-> "void"]
None == [kind |-> "none"]

isError(r) == r.kind = "error"

top == stack[Len(stack)]
Running == stack # <<>>
done == stack = <<>>
In(fn, pc) == Running /\ top.fn = fn /\ top.pc = pc

\* Names of the characters an escape appends that have no one-character
\* spelling here: '\b', '\f' and '\r'.
BS == "<BS>"
FF == "<FF>"
CR == "<CR>"

\* static const std::unordered_map<char, std::string> escapes
escapes ==
    [c \in {"\"", "\\", "/", "b", "f", "n", "r", "t"} |->
        CASE c = "\"" -> "\""
          [] c = "\\" -> "\\"
          [] c = "/" -> "/"
          [] c = "b" -> BS
          [] c = "f" -> FF
          [] c = "n" -> "\n"
          [] c = "r" -> CR
          [] c = "t" -> "\t"]

\* The values a byte of memory that the program never wrote can have, up
\* to what the code distinguishes: each escape selector, 'u', and one byte
\* that is neither.
AnyByte == DOMAIN escapes \cup {"u", NUL}

\* const auto c = str[cursor];   (str is the std::string being built, not
\* source).  Inside the string it is the character built there; at
\* str.size() it is the terminating '\0'; beyond it the read is outside the
\* string's contents (within the 32 reserved bytes for the cursors of this
\* model) and yields any byte.
EscapeSelector(built, c) ==
    IF c < Len(built) THEN {At(built, c)}
    ELSE IF c = Len(built) THEN {NUL}
    ELSE AnyByte

\* bool isWhitespace(char ch)
isWhitespace(ch) == ch = " " \/ ch = "\t" \/ ch = "\n" \/ ch = "\t"

RECURSIVE find_first_not_of(_, _, _)
\* source.find_first_not_of(valueChars, cursor), with npos replaced by
\* source.size() as lines 215-217 do
find_first_not_of(s, chars, pos) ==
    IF pos < Len(s) /\ At(s, pos) \in chars
    THEN find_first_not_of(s, chars, pos + 1)
    ELSE pos

\* One step of the parser: the new cursor, call stack and handed-back result.
Step(c, st, r) ==
    /\ cursor' = c
    /\ stack' = st
    /\ ret' = r
    /\ steps' = steps + 1
    /\ UNCHANGED <<source, shape, lookupVars, contextVars>>

Popped == SubSeq(stack, 1, Len(stack) - 1)
At_pc(pc) == [stack EXCEPT ![Len(stack)].pc = pc]
With(pc, acc) == [stack EXCEPT ![Len(stack)].pc = pc, ![Len(stack)].acc = acc]
Calling(pc, frame) == Append(At_pc(pc), frame)

\* return r;
Return(c, r) == Step(c, Popped, r)

(* ---- skipWhitespace (lines 63-68) ---- *)
\* SkipWhitespaceStep whose iteration forgets the cursor++.
SkipWhitespaceNoAdvance ==
    /\ In("skipWhitespace", "loop")
    /\ IF cursor < Len(source) /\ isWhitespace(At(source, cursor))
       THEN Step(cursor, stack, ret)
       ELSE Return(cursor, Void)

\* one test of the loop condition: an iteration, or the return
SkipWhitespaceStep ==
    /\ In("skipWhitespace", "loop")
    /\ IF cursor < Len(source) /\ isWhitespace(At(source, cursor))
       THEN Step(cursor + 1, stack, ret)
       ELSE Return(cursor, Void)

(* ---- skipSeparator (lines 80-89) ---- *)
SkipSeparatorEnter ==
    /\ In("skipSeparator", "enter")
    /\ Step(cursor, Calling("comma", Frame("skipWhitespace", "loop", <<>>)), ret)

SkipSeparatorComma ==
    /\ In("skipSeparator", "comma")
    /\ IF cursor < Len(source) /\ At(source, cursor) = ","
       THEN Step(cursor + 1, Calling("found", Frame("skipWhitespace", "loop", <<>>)), ret)
       ELSE Return(cursor, Found(FALSE))

SkipSeparatorFound ==
    /\ In("skipSeparator", "found")
    /\ Return(cursor, Found(TRUE))

(* ---- parseString (lines 11-56) ---- *)
\* the asserts and the cursor++ over the opening quote
ParseStringEnter ==
    /\ In("parseString", "enter")
    /\ cursor < Len(source)
    /\ At(source, cursor) = "\""
    /\ Step(cursor + 1, With("loop", <<>>), ret)

ParseStringUnterminated ==
    /\ In("parseString", "loop")
    /\ ~(cursor < Len(source))
    /\ Return(cursor, Error(cursor, "Unterminated string"))

\* ParseStringEscape without the test for the end of the buffer after the
\* backslash: the escape is skipped over as if a character followed.
ParseStringEscapeUnchecked ==
    /\ In("parseString", "loop")
    /\ cursor < Len(source)
    /\ At(source, cursor) = "\\"
    /\ \E c \in EscapeSelector(top.acc, cursor + 1) :
          IF c = "u"
          THEN Return(cursor + 1, Error(cursor + 1, "Unicode escapes are not implemented yet"))
          ELSE IF c \notin DOMAIN escapes
          THEN Return(cursor + 1, Error(cursor + 1, "Invalid character escape"))
          ELSE Step(cursor + 2, With("loop", Append(top.acc, escapes[c])), ret)

ParseStringEscape ==
    /\ In("parseString", "loop")
    /\ cursor < Len(source)
    /\ At(source, cursor) = "\\"
    /\ IF cursor + 1 >= Len(source)
       THEN Return(cursor + 1, Error(cursor + 1, "Incomplete character escape"))
       ELSE \E c \in EscapeSelector(top.acc, cursor + 1) :
              IF c = "u"
              THEN Return(cursor + 1, Error(cursor + 1, "Unicode escapes are not implemented yet"))
              ELSE IF c \notin DOMAIN escapes
              THEN Return(cursor + 1, Error(cursor + 1, "Invalid character escape"))
              ELSE Step(cursor + 2, With("loop", Append(top.acc, escapes[c])), ret)

ParseStringClose ==
    /\ In("parseString", "loop")
    /\ cursor < Len(source)
    /\ At(source, cursor) = "\""
    /\ Return(cursor + 1, Str(top.acc))

ParseStringChar ==
    /\ In("parseString", "loop")
    /\ cursor < Len(source)
    /\ At(source, cursor) \notin {"\\", "\""}
    /\ Step(cursor + 1, With("loop", Append(top.acc, At(source, cursor))), ret)

(* ---- parseArray (lines 93-125) ---- *)
\* while (cursor < source.size()) { skipWhitespace(...)   or   return JsonValue(values)
ParseArrayLoop ==
    /\ In("parseArray", "loop")
    /\ IF cursor < Len(source)
       THEN Step(cursor, Calling("check", Frame("skipWhitespace", "loop", <<>>)), ret)
       ELSE Return(cursor, Value(Array(top.acc)))

\* lines 99-108
ParseArrayCheck ==
    /\ In("parseArray", "check")
    /\ IF cursor >= Len(source)
       THEN Return(cursor, Error(cursor, "Unterminated array"))
       ELSE IF At(source, cursor) = "]"
       THEN Return(cursor + 1, Value(Array(top.acc)))
       ELSE Step(cursor, Calling("value", Frame("parseValue", "enter", <<>>)), ret)

\* lines 109-114
ParseArrayValue ==
    /\ In("parseArray", "value")
    /\ IF isError(ret)
       THEN Return(cursor, ret)
       ELSE Step(cursor,
                 Append(With("separator", Append(top.acc, ret.value)),
                        Frame("skipSeparator", "enter", <<>>)),
                 ret)

\* ParseArraySeparator with the two tests in the other order: the separator
\* is demanded before the closing bracket is looked for.
ParseArraySeparatorFirst ==
    /\ In("parseArray", "separator")
    /\ LET separatorFound == ret.b
       IN  IF ~separatorFound
           THEN Return(cursor, Error(cursor, "Expected separator"))
           ELSE IF cursor < Len(source) /\ At(source, cursor) = "]"
           THEN Return(cursor + 1, Value(Array(top.acc)))
           ELSE Step(cursor, At_pc("loop"), ret)

\* lines 114-123
ParseArraySeparator ==
    /\ In("parseArray", "separator")
    /\ LET separatorFound == ret.b
       IN  IF cursor < Len(source) /\ At(source, cursor) = "]"
           THEN Return(cursor + 1, Value(Array(top.acc)))
           ELSE IF ~separatorFound
           THEN Return(cursor, Error(cursor, "Expected separator"))
           ELSE Step(cursor, At_pc("loop"), ret)

(* ---- parseObject (lines 127-181) ---- *)
ParseObjectLoop ==
    /\ In("parseObject", "loop")
    /\ IF cursor < Len(source)
       THEN Step(cursor, Calling("check", Frame("skipWhitespace", "loop", <<>>)), ret)
       ELSE Return(cursor, Value(Object(top.acc)))

\* lines 133-146
ParseObjectCheck ==
    /\ In("parseObject", "check")
    /\ IF cursor >= Len(source)
       THEN Return(cursor, Error(cursor, "Unterminated object"))
       ELSE IF At(source, cursor) = "}"
       THEN Return(cursor + 1, Value(Object(top.acc)))
       ELSE IF At(source, cursor) # "\""
       THEN Return(cursor, Error(cursor, "Expected key"))
       ELSE Step(cursor, Calling("key", Frame("parseString", "enter", <<>>)), ret)

\* lines 147-151
ParseObjectKey ==
    /\ In("parseObject", "key")
    /\ IF isError(ret)
       THEN Return(cursor, ret)
       ELSE Step(cursor,
                 Append([stack EXCEPT ![Len(stack)].pc = "colon", ![Len(stack)].key = ret.str],
                        Frame("skipWhitespace", "loop", <<>>)),
                 ret)

\* lines 153-158
ParseObjectColon ==
    /\ In("parseObject", "colon")
    /\ IF cursor >= Len(source) \/ At(source, cursor) # ":"
       THEN Return(cursor, Error(cursor, "Expected colon"))
       ELSE Step(cursor + 1, Calling("member", Frame("skipWhitespace", "loop", <<>>)), ret)

\* lines 160-164
ParseObjectMember ==
    /\ In("parseObject", "member")
    /\ IF cursor >= Len(source)
       THEN Return(cursor, Error(cursor, "Expected value"))
       ELSE Step(cursor, Calling("value", Frame("parseValue", "enter", <<>>)), ret)

\* lines 165-170
ParseObjectValue ==
    /\ In("parseObject", "value")
    /\ IF isError(ret)
       THEN Return(cursor, ret)
       ELSE Step(cursor,
                 Append(With("separator", emplace(top.acc, top.key, ret.value)),
                        Frame("skipSeparator", "enter", <<>>)),
                 ret)

\* lines 170-179
ParseObjectSeparator ==
    /\ In("parseObject", "separator")
    /\ LET separatorFound == ret.b
       IN  IF cursor < Len(source) /\ At(source, cursor) = "}"
           THEN Return(cursor + 1, Value(Object(top.acc)))
           ELSE IF ~separatorFound
           THEN Return(cursor, Error(cursor, "Expected separator"))
           ELSE Step(cursor, At_pc("loop"), ret)

(* ---- parseValue (lines 183-242) ---- *)
ParseValueEnter ==
    /\ In("parseValue", "enter")
    /\ Step(cursor, Calling("dispatch", Frame("skipWhitespace", "loop", <<>>)), ret)

ParseValueExhausted ==
    /\ In("parseValue", "dispatch")
    /\ cursor >= Len(source)
    /\ Return(cursor, Error(cursor, "Expected value"))

ParseValueObject ==
    /\ In("parseValue", "dispatch")
    /\ cursor < Len(source)
    /\ At(source, cursor) = "{"
    /\ Step(cursor + 1, Calling("container", Frame("parseObject", "loop", <<>>)), ret)

ParseValueArray ==
    /\ In("parseValue", "dispatch")
    /\ cursor < Len(source)
    /\ At(source, cursor) = "["
    /\ Step(cursor + 1, Calling("container", Frame("parseArray", "loop", <<>>)), ret)

\* if (!res) return res.error(); return res;
ParseValueContainer ==
    /\ In("parseValue", "container")
    /\ Return(cursor, ret)

ParseValueString ==
    /\ In("parseValue", "dispatch")
    /\ cursor < Len(source)
    /\ At(source, cursor) = "\""
    /\ Step(cursor, Calling("string", Frame("parseString", "enter", <<>>)), ret)

\* if (!res) return res.error(); return JsonValue(std::move(*res));
ParseValueStringResult ==
    /\ In("parseValue", "string")
    /\ IF isError(ret) THEN Return(cursor, ret) ELSE Return(cursor, Value(String(ret.str)))

\* the literal and number branch, lines 211-241
ScanValue(s, c) ==
    LET valueEnd == find_first_not_of(s, valueChars, c)
        value == substr(s, c, valueEnd - c)
        number == parseNumber(value)
    IN  IF value = <<>> THEN [cursor |-> c, result |-> Error(c, "Value must not be empty")]
        ELSE IF value = <<"n", "u", "l", "l">>
        THEN [cursor |-> c + Len(value), result |-> Value(Null)]
        ELSE IF value = <<"t", "r", "u", "e">>
        THEN [cursor |-> c + Len(value), result |-> Value(Bool(TRUE))]
        ELSE IF value = <<"f", "a", "l", "s", "e">>
        THEN [cursor |-> c + Len(value), result |-> Value(Bool(FALSE))]
        ELSE IF number = nullopt
        THEN [cursor |-> c, result |-> Error(c, "Invalid number")]
        ELSE [cursor |-> c + Len(value), result |-> Value(number)]

ParseValueLiteral ==
    /\ In("parseValue", "dispatch")
    /\ cursor < Len(source)
    /\ At(source, cursor) \notin {"{", "[", "\""}
    /\ LET scan == ScanValue(source, cursor)
       IN  Return(scan.cursor, scan.result)

NextParse ==
    \/ SkipWhitespaceStep
    \/ SkipSeparatorEnter
    \/ SkipSeparatorComma
    \/ SkipSeparatorFound
    \/ ParseStringEnter
    \/ ParseStringUnterminated
    \/ ParseStringEscape
    \/ ParseStringClose
    \/ ParseStringChar
    \/ ParseArrayLoop
    \/ ParseArrayCheck
    \/ ParseArrayValue
    \/ ParseArraySeparator
    \/ ParseObjectLoop
    \/ ParseObjectCheck
    \/ ParseObjectKey
    \/ ParseObjectColon
    \/ ParseObjectMember
    \/ ParseObjectValue
    \/ ParseObjectSeparator
    \/ ParseValueEnter
    \/ ParseValueExhausted
    \/ ParseValueObject
    \/ ParseValueArray
    \/ ParseValueContainer
    \/ ParseValueString
    \/ ParseValueStringResult
    \/ ParseValueLiteral

(***************************************************************************)
(* The buffers parse is run on.                                            *)
(***************************************************************************)
\* Characters of the freely drawn buffers.
RawChars == {"[", "]", ",", "\"", "\\", " ", "1", "k", "b", "u"}

\* Element texts and the values they denote.
ElemTexts == {<<"1">>, <<"2">>}
ElemValue(t) == Number(DigitsValue(t), 0)

\* What may stand between an element and the next one, or the closing
\* bracket: whitespace and commas.
InnerSeps == {<<" ">>, <<",">>, <<" ", ",", " ">>, <<",", ",">>}
LastSeps == InnerSeps \cup {<<>>}
Commas(sep) == Cardinality({i \in 1..Len(sep) : sep[i] = ","})

\* "[" lead e1 s1 e2 s2 ... en sn, and "]" when closed
ArrayText(lead, elems, seps, closed) ==
    <<"[">> \o lead \o Concat([i \in 1..Len(elems) |-> elems[i] \o seps[i]])
        \o (IF closed THEN <<"]">> ELSE <<>>)

ArrayShapes ==
    {[kind |-> "array", lead |-> lead, elems |-> elems, seps |-> seps, closed |-> closed] :
        lead \in {<<>>, <<" ">>},
        elems \in SeqsUpTo(ElemTexts, MaxElems),
        seps \in SeqsUpTo(LastSeps, MaxElems),
        closed \in BOOLEAN}

WellShapedArray(sh) ==
    /\ Len(sh.seps) = Len(sh.elems)
    /\ \A i \in 1..(Len(sh.seps) - 1) : sh.seps[i] \in InnerSeps

\* Member texts: a key and a value, written compactly or with whitespace
\* around every token.
MemberKeys == {<<"x">>, <<"y">>}
MemberText(m, spaced) ==
    IF spaced
    THEN <<" ", "\"">> \o m.key \o <<"\"", " ", ":", " ">> \o m.val \o <<" ">>
    ELSE <<"\"">> \o m.key \o <<"\"", ":">> \o m.val

\* "{" m1 "," m2 "," ... mn trailing, and "}" when closed
ObjectText(members, spaced, trailing, closed) ==
    <<"{">> \o Concat([i \in 1..Len(members) |->
                          MemberText(members[i], spaced)
                          \o (IF i < Len(members) THEN <<",">> ELSE trailing)])
        \o (IF closed THEN <<"}">> ELSE <<>>)

ObjectShapes ==
    {[kind |-> "object", members |-> members, spaced |-> spaced,
      trailing |-> trailing, closed |-> closed] :
        members \in SeqsUpTo([key : MemberKeys, val : ElemTexts], MaxElems),
        spaced \in BOOLEAN,
        trailing \in {<<>>, <<",">>, <<",", ",">>},
        closed \in BOOLEAN}

\* The trees that are dumped: scalars, arrays and objects of scalars, and
\* those wrapped in up to MaxNest one-element containers.
TinyNumber == Number(1, 7)      \* 0.0000001
Scalars ==
    {Null, Bool(TRUE), Bool(FALSE), Number(1, 0), Number(0 - 12, 0), Number(5, 1),
     TinyNumber, String(<<>>), String(<<"x", " ", "k">>)}
Members == {Null, Number(1, 0), TinyNumber, String(<<"x">>)}
TreeKeys == {<<"x">>, <<"a", "k">>}

Flat ==
    {Array(a) : a \in SeqsUpTo(Members, MaxElems)}
    \cup {Object(o) : o \in UNION {[K -> Members] : K \in {J \in SUBSET TreeKeys : Cardinality(J) <= MaxElems}}}

RECURSIVE Wrapped(_)
Wrapped(n) ==
    IF n = 0 THEN Flat
    ELSE LET inner == Wrapped(n - 1)
         IN  inner \cup {Array(<<t>>) : t \in inner} \cup {Object(<<"x">> :> t) : t \in inner}

Trees == Scalars \cup Wrapped(MaxNest)

DumpIndents == {<<>>, <<" ", " ">>}

Idle ==
    /\ doc = Invalid
    /\ cur = Invalid
    /\ chain = <<>>
    /\ str = <<>>
    /\ offset = 0
    /\ ctx = <<>>

\* Result<JsonValue> parse(std::string_view source): cursor = 0 and the
\* call of parseValue
Start(text, sh) ==
    /\ source = text
    /\ shape = sh
    /\ cursor = 0
    /\ stack = <<Frame("parseValue", "enter", <<>>)>>
    /\ ret = None
    /\ steps = 0
    /\ Idle

InitRaw == \E text \in SeqsUpTo(RawChars, MaxLen) : Start(text, [kind |-> "raw"])

InitArray ==
    \E sh \in ArrayShapes :
        /\ WellShapedArray(sh)
        /\ Start(ArrayText(sh.lead, sh.elems, sh.seps, sh.closed), sh)

InitObject ==
    \E sh \in ObjectShapes :
        /\ (sh.members = <<>> => sh.trailing = <<>>)
        /\ Start(ObjectText(sh.members, sh.spaced, sh.trailing, sh.closed), sh)

InitDump ==
    \E tree \in Trees, indent \in DumpIndents :
        Start(dump(tree, indent, 0), [kind |-> "dump", tree |-> tree, indent |-> indent])

Init == InitRaw \/ InitArray \/ InitObject \/ InitDump

Spec == Init /\ [][NextParse]_vars

(***************************************************************************)
(* Chains of lookups, doc[k1][k2]..., on the trees above and on Invalid.   *)
(***************************************************************************)
LookupKeys == TreeKeys \cup {<<"y">>}

ParseIdle ==
    /\ source = <<>>
    /\ shape = [kind |-> "none"]
    /\ cursor = 0
    /\ stack = <<>>
    /\ ret = None
    /\ steps = 0

failed(v) == v.type \in {BadVariantAccess.type, OutOfBounds.type}

InitLookup ==
    /\ doc \in Trees \cup {Invalid}
    /\ cur = doc
    /\ chain = <<>>
    /\ str = <<>>
    /\ offset = 0
    /\ ctx = <<>>
    /\ ParseIdle

\* cur[key]
LookupKey ==
    /\ Len(chain) < MaxChain
    /\ ~failed(cur)
    /\ \E key \in LookupKeys :
          /\ cur' = IndexKey(cur, key)
          /\ chain' = Append(chain, [by |-> "key", key |-> key])
    /\ UNCHANGED <<doc, parseVars, contextVars>>

\* cur[index]
LookupIndex ==
    /\ Len(chain) < MaxChain
    /\ ~failed(cur)
    /\ \E index \in 0..MaxElems :
          /\ cur' = IndexAt(cur, index)
          /\ chain' = Append(chain, [by |-> "index", index |-> index])
    /\ UNCHANGED <<doc, parseVars, contextVars>>

NextLookup == LookupKey \/ LookupIndex

SpecLookup == InitLookup /\ [][NextLookup]_vars

(***************************************************************************)
(* Calls of getContext.                                                    *)
(***************************************************************************)
CtxChars == {"a", "b", "\n"}

\* The bytes that can follow the view in memory: the '\0' of a terminated
\* string, or the next character of a longer buffer, which may be a newline.
PastBytes == {NUL, "\n"}

InitContext ==
    /\ str \in SeqsUpTo(CtxChars, MaxCtxLen)
    /\ offset \in 0..Len(str)
    /\ ctx = <<>>
    /\ doc = Invalid
    /\ cur = Invalid
    /\ chain = <<>>
    /\ ParseIdle

GetContext ==
    /\ ctx = <<>>
    /\ \E past \in PastBytes : ctx' = getContext(str, offset, past)
    /\ UNCHANGED <<str, offset, parseVars, lookupVars>>

NextContext == GetContext

SpecContext == InitContext /\ [][NextContext]_vars

(***************************************************************************)
(* Claims.                                                                 *)
(***************************************************************************)
\* The array text is well formed up to where it stops: exactly one comma
\* between elements, at most one after the last.
GoodArray(sh) ==
    /\ \A i \in 1..(Len(sh.seps) - 1) : Commas(sh.seps[i]) = 1
    /\ sh.seps # <<>> => Commas(sh.seps[Len(sh.seps)]) <= 1

GoodObject(sh) == Commas(sh.trailing) <= 1

\* The buffer is a well-formed array (object) text without its closing
\* bracket: it ends right after the opening bracket, after an element or
\* after a separator comma.
UnclosedArray == shape.kind = "array" /\ ~shape.closed /\ GoodArray(shape)
UnclosedObject == shape.kind = "object" /\ ~shape.closed /\ GoodObject(shape)

\* C1: a buffer that ends before the bracket closing an opened array
\* (object) makes parse fail with "Unterminated array" ("Unterminated
\* object"); parse never returns a successful value for it.
C1_Unterminated ==
    /\ (done /\ UnclosedArray) => (isError(ret) /\ ret.message = "Unterminated array")
    /\ (done /\ UnclosedObject) => (isError(ret) /\ ret.message = "Unterminated object")

\* The part of C1 that the messages do not touch: such a buffer is never
\* parsed successfully.
C1_NeverSucceeds == (done /\ (UnclosedArray \/ UnclosedObject)) => isError(ret)

\* The parser is about to handle a backslash inside a string literal that
\* is followed by a character of the source.
AtEscape ==
    /\ In("parseString", "loop")
    /\ cursor + 1 < Len(source)
    /\ At(source, cursor) = "\\"

\* C2: the outcome of a backslash escape is decided by the source character
\* c after the backslash alone: one of the eight escapes appends its one
\* character and parsing goes on after c, 'u' fails with "Unicode escapes
\* are not implemented yet", any other c with "Invalid character escape".
C2_EscapeBySource ==
    [][AtEscape =>
        LET c == At(source, cursor + 1)
        IN  IF c \in DOMAIN escapes
            THEN /\ stack' = With("loop", Append(top.acc, escapes[c]))
                 /\ cursor' = cursor + 2
            ELSE IF c = "u"
            THEN isError(ret') /\ ret'.message = "Unicode escapes are not implemented yet"
            ELSE isError(ret') /\ ret'.message = "Invalid character escape"]_vars

\* The text is a run of digits directly followed by one or more letters.
DigitsThenLetters(text) ==
    \E n \in 1..(Len(text) - 1) :
        /\ \A i \in 1..n : text[i] \in Digits
        /\ \A i \in (n + 1)..Len(text) : text[i] \in Letters

\* C3: the maximal run over [0-9a-zA-Z.+-] is one token, and a digit run
\* directly followed by letters (any letter a-z, A-Z) fails with "Invalid
\* number"; it is never accepted as the number of its numeric prefix.
C3_TrailingLetters ==
    (done /\ DigitsThenLetters(source)) => (isError(ret) /\ ret.message = "Invalid number")

\* The kinds of JsonValue.
JsonTypes == {"Invalid", "Null", "Bool", "Number", "String", "Array", "Object"}

\* A lookup is present: v is an Object containing the key, or an Array
\* with the index below its size.
Present(v, look) ==
    IF look.by = "key"
    THEN v.type = "Object" /\ look.key \in DOMAIN v.o
    ELSE v.type = "Array" /\ look.index < Len(v.a)

Stored(v, look) == IF look.by = "key" THEN v.o[look.key] ELSE v.a[look.index + 1]

RECURSIVE Resolve(_, _)
\* What a chain of lookups from v is to yield: the stored value as long as
\* every lookup is present, Invalid from the first miss on.
Resolve(v, looks) ==
    IF looks = <<>> THEN v
    ELSE IF Present(v, Head(looks)) THEN Resolve(Stored(v, Head(looks)), Tail(looks))
    ELSE Invalid

\* C4: keyed and indexed lookup are total: on a value of any kind they
\* return the stored member or element when it is present and an invalid
\* value otherwise, so a chain of lookups yields Invalid from its first
\* miss on, and no lookup fails.
C4_TotalLookup ==
    /\ cur.type \in JsonTypes
    /\ cur = Resolve(doc, chain)
    /\ (\E n \in 1..Len(chain) : ~isValid(Resolve(doc, SubSeq(chain, 1, n)))) => ~isValid(cur)

\* A chain whose first lookup finds a member, whose second misses and whose
\* third is applied to the Invalid value that the miss returned.
C4_Witness ==
    /\ Len(chain) = 3
    /\ isValid(Resolve(doc, SubSeq(chain, 1, 1)))
    /\ ~isValid(Resolve(doc, SubSeq(chain, 1, 2)))
    /\ cur = Invalid

\* C5: for every tree of Null, Bool, Number, Array, Object and strings
\* free of quotes, backslashes and control characters, parse(tree.dump())
\* succeeds and returns a tree equal to the original.
C5_RoundTrip == (done /\ shape.kind = "dump") => ret = Value(shape.tree)

\* The members of an object text as the Object they are to parse to when
\* the first occurrence of a key wins.
FirstOccurrence(members, key) ==
    CHOOSE i \in 1..Len(members) :
        /\ members[i].key = key
        /\ \A j \in 1..(i - 1) : members[j].key # key

FirstWins(members) ==
    [key \in {members[i].key : i \in 1..Len(members)} |->
        ElemValue(members[FirstOccurrence(members, key)].val)]

HasDuplicateKey(members) ==
    \E i, j \in 1..Len(members) : i < j /\ members[i].key = members[j].key

\* parse has returned for a complete object text in which a key occurs
\* more than once.
DuplicateKeyParsed ==
    /\ done
    /\ shape.kind = "object"
    /\ shape.closed
    /\ GoodObject(shape)
    /\ HasDuplicateKey(shape.members)

\* C6: an object text in which a key occurs more than once parses
\* successfully; the Object maps the key to the value of its first
\* occurrence, and its size is the number of distinct keys.
C6_FirstKeyWins ==
    DuplicateKeyParsed =>
        /\ ret = Value(Object(FirstWins(shape.members)))
        /\ size(ret.value) = Cardinality({shape.members[i].key : i \in 1..Len(shape.members)})

\* {"x":1,"x":2} (in either spacing) has been parsed.
C6_Witness ==
    /\ DuplicateKeyParsed
    /\ Len(shape.members) = 2
    /\ shape.members[1].val # shape.members[2].val
    /\ ret.kind = "value"
    /\ ret.value.o[shape.members[1].key] = ElemValue(shape.members[1].val)

\* The elements of an array text as the Array they denote.
ElemValues(elems) == Array([i \in 1..Len(elems) |-> ElemValue(elems[i])])

\* C7: after each element a comma is optionally consumed; if the closing
\* bracket follows, the array ends, so one trailing comma changes nothing;
\* an element followed by neither a comma nor the closing bracket fails with
\* "Expected separator"; two commas in a row always fail.
C7_Separators ==
    (done /\ shape.kind = "array") =>
        /\ (shape.closed /\ GoodArray(shape)) => ret = Value(ElemValues(shape.elems))
        /\ \A i \in 1..(Len(shape.seps) - 1) :
              (/\ Commas(shape.seps[i]) = 0
               /\ \A j \in 1..(i - 1) : Commas(shape.seps[j]) = 1)
              => (isError(ret) /\ ret.message = "Expected separator")
        /\ (\E i \in 1..Len(shape.seps) : Commas(shape.seps[i]) = 2) => isError(ret)

\* An array text with two elements and one trailing comma has been parsed
\* to its two elements.
C7_Witness ==
    /\ done
    /\ shape.kind = "array"
    /\ shape.closed
    /\ Len(shape.elems) = 2
    /\ Commas(shape.seps[1]) = 1
    /\ Commas(shape.seps[2]) = 1
    /\ ret = Value(ElemValues(shape.elems))

\* The asserts of parseString (lines 13-14) hold whenever it is entered:
\* they are the only place where a rule can stop without returning.
AssertsHold ==
    In("parseString", "enter") => (cursor < Len(source) /\ At(source, cursor) = "\"")

\* C8: parse terminates on every finite buffer: every step of a loop or a
\* rule advances the cursor or returns, so a result (a value or an error)
\* is reached after a number of steps bounded by the buffer length (here:
\* at most 8 steps for each character and 8 more), and no rule stops
\* before.
C8_Terminates ==
    /\ steps <= 8 * (Len(source) + 1)
    /\ AssertsHold
    /\ done => ret.kind \in {"value", "error"}

\* parse has returned after a run that took at least six steps for each
\* character of a buffer of four characters or more.
C8_Witness ==
    /\ done
    /\ Len(source) >= 4
    /\ steps >= 6 * Len(source)

\* What getContext is to return: the line enclosing the offset (a newline
\* belongs to the line it terminates), a newline, and the caret under the
\* offset.
LineStart(s, c) ==
    LET before == {i \in 0..(c - 1) : At(s, i) = "\n"}
    IN  IF before = {} THEN 0 ELSE (CHOOSE i \in before : \A j \in before : j <= i) + 1

LineEnd(s, c) ==
    LET after == {i \in c..(Len(s) - 1) : At(s, i) = "\n"}
    IN  IF after = {} THEN Len(s) ELSE CHOOSE i \in after : \A j \in after : i <= j

ExpectedContext(s, c) ==
    substr(s, LineStart(s, c), LineEnd(s, c) - LineStart(s, c)) \o <<"\n">>
        \o Repeat(<<" ">>, c - LineStart(s, c)) \o <<"^">>

\* C9: for every buffer and every offset in it (an offset on a newline
\* and the buffer length included) getContext returns the enclosing line,
\* a newline, k spaces and the caret, k being the offset's distance from
\* the start of the line.
C9_Context == ctx # <<>> => ctx = ExpectedContext(str, offset)

\* C10: the cursor never decreases and stays within 0..buffer length; once
\* a rule has returned an error the cursor is not advanced again, the
\* error is handed up unchanged by returns alone, and its cursor is an
\* offset in 0..buffer length.
C10_CursorForward ==
    [][/\ cursor <= cursor'
       /\ 0 <= cursor' /\ cursor' <= Len(source)
       /\ isError(ret') => ret'.cursor \in 0..Len(source)
       /\ isError(ret) => (cursor' = cursor /\ ret' = ret /\ stack' = Popped)]_vars

\* An error has been returned with the cursor inside the buffer and two
\* or more rules are still to hand it up.
C10_Witness ==
    /\ isError(ret)
    /\ cursor > 0
    /\ Len(stack) >= 2

(***************************************************************************)
(* parse called on a text s and then on s followed by a suffix t.  The     *)
(* texts s end with the closing delimiter of their top-level value: string *)
(* literals (with and without escapes), a string literal inside an array,  *)
(* and the closed array and object texts of the families above.            *)
(***************************************************************************)
MaxSuffix == 2

\* What a string literal is made of: a plain character or an escape.
StringItems == {<<"1">>, <<"\\", "b">>, <<"\\", "\"">>}

StringLiterals ==
    {<<"\"">> \o Concat(items) \o <<"\"">> : items \in SeqsUpTo(StringItems, MaxElems)}

ClosedTexts ==
    StringLiterals
    \cup {<<"[">> \o lit \o <<"]">> : lit \in StringLiterals}
    \cup {ArrayText(sh.lead, sh.elems, sh.seps, TRUE) :
            sh \in {a \in ArrayShapes : a.closed /\ WellShapedArray(a) /\ GoodArray(a)}}
    \cup {ObjectText(sh.members, sh.spaced, sh.trailing, TRUE) :
            sh \in {o \in ObjectShapes :
                      /\ o.closed
                      /\ GoodObject(o)
                      /\ (o.members = <<>> => o.trailing = <<>>)}}

\* What follows s in the longer buffer: whitespace, a second value, stray
\* delimiters.
SuffixChars == {" ", "1", "]"}

\* parse(s)
InitSuffix ==
    \E s \in ClosedTexts, t \in SeqsUpTo(SuffixChars, MaxSuffix) :
        Start(s, [kind |-> "suffix", text |-> s, suffix |-> t, again |-> FALSE])

\* parse(s) has returned a value, kept as doc; parse(s + t) is called.
ParseAgain ==
    /\ done
    /\ shape.kind = "suffix"
    /\ ~shape.again
    /\ ret.kind = "value"
    /\ doc' = ret.value
    /\ source' = shape.text \o shape.suffix
    /\ shape' = [shape EXCEPT !.again = TRUE]
    /\ cursor' = 0
    /\ stack' = <<Frame("parseValue", "enter", <<>>)>>
    /\ ret' = None
    /\ steps' = 0
    /\ UNCHANGED <<cur, chain, contextVars>>

NextSuffix == NextParse \/ ParseAgain

\* Every call of parse of Spec, and the pairs of calls on s and s + t.
SpecSuffix == (Init \/ InitSuffix) /\ [][NextSuffix]_vars

\* parse(s + t) has returned, after parse(s) returned a value.
SuffixParsed == done /\ shape.kind = "suffix" /\ shape.again

\* C11: parse returns as soon as the first complete top-level value has
\* been parsed: for every text s that parses successfully and ends with
\* the closing delimiter of its top-level array, object or string, and
\* every suffix t, parse(s + t) succeeds and returns the value of parse(s).
C11_SuffixIgnored == SuffixParsed => ret = Value(doc)

\* The same for the texts s in which no backslash occurs.
C11_NoEscape ==
    (SuffixParsed /\ \A i \in 1..Len(shape.text) : shape.text[i] # "\\")
        => /\ ret = Value(doc)
           /\ cursor = Len(shape.text)

====
